---- MODULE Spec2Model ----
(***************************************************************************)
(* A model of goredis/conn.go: the RESP codec (writeRequest / readResponse *)
(* and their helpers, on byte sequences), the request/response primitive   *)
(* Call, the retry loop CallN, the pipeline (PipeSend / PipeExec) and the  *)
(* transaction helpers (MULTI / TransSend / TransExec / Discard / Watch).  *)
(* CodecSpec applies the codec alone to bounded inputs; CounterSpec runs   *)
(* Call on several connections at once, step by step on the pool counter.  *)
(*                                                                         *)
(* Bytes are their ASCII codes.  A Go interface{} value is a record that   *)
(* carries its dynamic type (k), so that a nil interface and a nil slice   *)
(* stored in an interface are different values, as they are in Go.         *)
(***************************************************************************)
EXTENDS Integers, Sequences, FiniteSets, TLC

(***************************************************************************)
(* Program constants                                                       *)
(***************************************************************************)
DefaultBufferSize == 64
TypeError == 45
TypeSimpleString == 43
TypeBulkString == 36
TypeIntegers == 58
TypeArrays == 42
CR == 13
LF == 10
Char0 == 48

\* "CommonError:"
CommonErrPrefix == <<67, 111, 109, 109, 111, 110, 69, 114, 114, 111, 114, 58>>

(***************************************************************************)
(* Byte-string helpers                                                     *)
(***************************************************************************)
Drop(s, n) == SubSeq(s, n + 1, Len(s))
Take(s, n) == SubSeq(s, 1, n)

\* strings.Contains
Contains(s, sub) ==
    \E i \in 0..(Len(s) - Len(sub)) : SubSeq(s, i + 1, i + Len(sub)) = sub

RECURSIVE Flatten(_)
Flatten(ss) == IF ss = <<>> THEN <<>> ELSE Head(ss) \o Flatten(Tail(ss))

(***************************************************************************)
(* Go values: error and interface{}                                        *)
(***************************************************************************)
\* an error is its name and the text of Error(); NoErr is the nil error
Err(name, msg) == [name |-> name, msg |-> msg]
NoErr == Err("nil", <<>>)
\* "nil data return"
ErrNil == Err("ErrNil", <<110, 105, 108, 32, 100, 97, 116, 97>>)
\* "invalid return type"
ErrBadType == Err("ErrBadType", <<105, 110, 118, 97, 108, 105, 100, 32, 116, 121, 112, 101>>)
\* "invalid terminator"
ErrBadTerminator == Err("ErrBadTerminator", <<105, 110, 118, 97, 108, 105, 100, 32, 116, 101, 114, 109>>)
\* errors of the net and io packages: "EOF" (also i/o timeout, unexpected EOF)
ErrIO == Err("io", <<69, 79, 70>>)
\* "use of closed network connection"
ErrClosed == Err("closed", <<99, 108, 111, 115, 101, 100>>)
\* errors.New(CommonErrPrefix + text)
CommonErr(name, text) == Err(name, CommonErrPrefix \o text)
\* errors.New("invalid return:" + string(r))
ErrInvalidReturn(r) == Err("invalid return", <<105, 110, 118, 58>> \o r)

\* interface{} values, tagged with their dynamic type
NilV == [k |-> "nil", n |-> 0, b |-> <<>>, a |-> <<>>, null |-> TRUE]
BytesV(b) == [k |-> "bytes", n |-> 0, b |-> b, a |-> <<>>, null |-> FALSE]
IntV(n) == [k |-> "int", n |-> n, b |-> <<>>, a |-> <<>>, null |-> FALSE]
ArrayV(a) == [k |-> "array", n |-> 0, b |-> <<>>, a |-> a, null |-> FALSE]
\* a nil []interface{} stored in an interface{}: not equal to nil
NilArrayV == [k |-> "array", n |-> 0, b |-> <<>>, a |-> <<>>, null |-> TRUE]

(***************************************************************************)
(* Encoding                                                                *)
(***************************************************************************)
\* the digit loop of writeLen: digits right to left while i != 0 && pos >= 0
RECURSIVE LenDigits(_, _)
LenDigits(i, pos) ==
    IF i # 0 /\ pos >= 0
    THEN Append(LenDigits(i \div 10, pos - 1), (i % 10) + Char0)
    ELSE <<>>

writeLen(prefix, n) ==
    <<prefix>> \o LenDigits(n, DefaultBufferSize - 3) \o <<CR, LF>>

writeBytes(b) == writeLen(TypeBulkString, Len(b)) \o b \o <<CR, LF>>

writeString(s) == writeLen(TypeBulkString, Len(s)) \o s \o <<CR, LF>>

\* strconv.AppendInt(.., n, 10)
RECURSIVE NatDigits(_)
NatDigits(n) ==
    IF n < 10 THEN <<n + Char0>> ELSE Append(NatDigits(n \div 10), (n % 10) + Char0)

AppendInt(n) == IF n < 0 THEN <<45>> \o NatDigits(-n) ELSE NatDigits(n)

writeInt64(n) == writeBytes(AppendInt(n))

\* command arguments: an interface{} with its dynamic type
StrArg(s) == [t |-> "string", s |-> s, n |-> 0]
BytesArg(s) == [t |-> "bytes", s |-> s, n |-> 0]
IntArg(n) == [t |-> "int", s |-> <<>>, n |-> n]
BoolArg(v) == [t |-> "bool", s |-> <<>>, n |-> IF v THEN 1 ELSE 0]
NilArg == [t |-> "nil", s |-> <<>>, n |-> 0]

\* the type switch of writeRequest
writeArg(arg) ==
    CASE arg.t = "int" -> writeInt64(arg.n)
      [] arg.t = "string" -> writeString(arg.s)
      [] arg.t = "bytes" -> writeBytes(arg.s)
      [] arg.t = "bool" -> IF arg.n = 1 THEN writeString(<<49>>) ELSE writeString(<<48>>)
      [] arg.t = "nil" -> writeString(<<>>)

RECURSIVE writeArgs(_)
writeArgs(args) ==
    IF args = <<>> THEN <<>> ELSE writeArg(Head(args)) \o writeArgs(Tail(args))

\* the bytes writeRequest appends to the write buffer
writeRequest(command, args) ==
    writeLen(TypeArrays, 1 + Len(args)) \o writeString(command) \o writeArgs(args)

(***************************************************************************)
(* Decoding                                                                *)
(***************************************************************************)
IsDigit(b) == b >= 48 /\ b <= 57

RECURSIVE DigitsVal(_)
DigitsVal(d) ==
    IF d = <<>> THEN 0
    ELSE DigitsVal(Take(d, Len(d) - 1)) * 10 + (d[Len(d)] - Char0)

\* strconv.ParseInt(string(p), 10, 64), within the lengths the model uses
ParseInt(p) ==
    LET signed == p # <<>> /\ p[1] \in {43, 45}
        neg == p # <<>> /\ p[1] = 45
        d == IF signed THEN Tail(p) ELSE p
    IN  IF d = <<>> \/ \E i \in 1..Len(d) : ~IsDigit(d[i])
        THEN [ok |-> FALSE, n |-> 0]
        ELSE [ok |-> TRUE, n |-> IF neg THEN 0 - DigitsVal(d) ELSE DigitsVal(d)]

\* "parse"
ParseErrText == <<112, 97, 114, 115, 101>>
\* "Err type"
ErrTypeText == <<69, 114, 114, 32, 116, 121, 112, 101>>

\* index of the first LF of buf, 0 when there is none
RECURSIVE ScanLF(_, _)
ScanLF(buf, i) ==
    IF i > Len(buf) THEN 0 ELSE IF buf[i] = LF THEN i ELSE ScanLF(buf, i + 1)
IndexLF(buf) == ScanLF(buf, 1)

\* readLine from the point where ReadBytes has found the LF at index k of buf
LineAt(buf, k) ==
    IF k = 0
    THEN [b |-> <<>>, e |-> ErrIO, rest |-> <<>>]
    ELSE IF k - 2 <= 0
         THEN [b |-> <<>>, e |-> ErrBadTerminator, rest |-> Drop(buf, k)]
         ELSE [b |-> Take(buf, k - 2), e |-> NoErr, rest |-> Drop(buf, k)]

\* readLine on the unread bytes buf: the line, the error, the bytes left
readLine(buf) == LineAt(buf, IndexLF(buf))

\* what a read returns: value, error, unread bytes, or a panic
Ret(val, e, rest) == [val |-> val, e |-> e, rest |-> rest, panic |-> FALSE]
Panic(rest) == [val |-> NilV, e |-> NoErr, rest |-> rest, panic |-> TRUE]

\* parseInt from the point where strconv.ParseInt has returned r
IntOf(r, rest) ==
    IF ~r.ok THEN Ret(IntV(0), CommonErr("parse", ParseErrText), rest)
    ELSE Ret(IntV(r.n), NoErr, rest)

parseInt(p, rest) == IntOf(ParseInt(p), rest)

\* parseBulkString from the point where strconv.ParseInt has returned r
BulkOf(r, rest) ==
    IF ~r.ok THEN Ret(BytesV(<<>>), CommonErr("parse", ParseErrText), rest)
    ELSE IF r.n = -1 THEN Ret(NilV, NoErr, rest)
    ELSE IF r.n < -1 THEN Panic(rest)
    ELSE IF Len(rest) >= r.n + 2
         THEN Ret(BytesV(Take(rest, r.n)), NoErr, Drop(rest, r.n + 2))
         ELSE Ret(BytesV(Take(rest \o [i \in 1..r.n |-> 0], r.n)), ErrIO, <<>>)

parseBulkString(p, rest) == BulkOf(ParseInt(p), rest)

RECURSIVE readResponse(_)
RECURSIVE parseArrayLoop(_, _, _, _)
RECURSIVE ArrayStep(_, _, _, _)

\* the body of the loop of parseArray, r being what c.readResponse() returned
ArrayStep(r, i, n, result) ==
    IF r.panic THEN r
    ELSE IF r.e # NoErr THEN Ret(NilArrayV, r.e, r.rest)
    ELSE parseArrayLoop(r.rest, i + 1, n, Append(result, r.val))

\* the loop of parseArray: result[i], e = c.readResponse()
parseArrayLoop(buf, i, n, result) ==
    IF i >= n THEN Ret(ArrayV(result), NoErr, buf)
    ELSE ArrayStep(readResponse(buf), i, n, result)

\* parseArray from the point where strconv.ParseInt has returned r
ArrayOf(r, rest) ==
    IF ~r.ok THEN Ret(NilArrayV, CommonErr("parse", ParseErrText), rest)
    ELSE IF r.n = -1 THEN Ret(NilArrayV, NoErr, rest)
    ELSE IF r.n < -1 THEN Panic(rest)
    ELSE parseArrayLoop(rest, 0, r.n, <<>>)

parseArray(p, rest) == ArrayOf(ParseInt(p), rest)

\* readResponse from the point where readLine has returned l
ResponseOf(l) ==
    IF l.e # NoErr THEN Ret(NilV, l.e, l.rest)
    ELSE CASE l.b[1] = TypeError -> Ret(NilV, CommonErr("reply", Tail(l.b)), l.rest)
           [] l.b[1] = TypeIntegers -> parseInt(Tail(l.b), l.rest)
           [] l.b[1] = TypeSimpleString -> Ret(BytesV(Tail(l.b)), NoErr, l.rest)
           [] l.b[1] = TypeBulkString -> parseBulkString(Tail(l.b), l.rest)
           [] l.b[1] = TypeArrays -> parseArray(Tail(l.b), l.rest)
           [] OTHER -> Ret(NilV, CommonErr("Err type", ErrTypeText), l.rest)

readResponse(buf) == ResponseOf(readLine(buf))

(***************************************************************************)
(* Bounds of the model                                                     *)
(***************************************************************************)
\* connections the pool holds at the start
PoolSize == 2
\* largest retry argument of CallN
MaxRetry == 3
\* largest number of PipeSend before a PipeExec
MaxPipe == 2
\* largest number of commands queued in a transaction
MaxQueued == 1
\* cap on the pool's call counter
MaxCalls == 3
\* operations start on a connection with at most this many unread bytes
MaxUnread == 4
\* longest byte string given to the codec
MaxLen == 4
\* largest number of arguments of an encoded request
MaxArgs == 2

(***************************************************************************)
(* The environment: connections, commands, the server's replies            *)
(***************************************************************************)
\* the caller's connection; the others start in the pool
Main == 1
Conns == 1..(1 + PoolSize)

\* "GET", "INCR", "MULTI", "EXEC", "DISCARD", "WATCH", "OK", "QUEUED"
GET == <<71, 69, 84>>
INCR == <<73, 78, 67, 82>>
MULTI == <<77, 85, 76, 84, 73>>
EXEC == <<69, 88, 69, 67>>
DISCARD == <<68, 73, 83, 67, 65, 82, 68>>
WATCH == <<87, 65, 84, 67, 72>>
OK == <<79, 75>>
QUEUED == <<81, 85, 69, 85, 69, 68>>

KeyA == <<97>>
KeyB == <<98>>
Cmds == {[command |-> GET, args |-> <<StrArg(KeyA)>>],
         [command |-> INCR, args |-> <<StrArg(KeyB)>>]}
KeyLists == {<<>>, <<KeyA>>, <<KeyA, KeyB>>}

\* what the server sends back for one request
ReplyOK == <<TypeSimpleString>> \o OK \o <<CR, LF>>
ReplyQueued == <<TypeSimpleString>> \o QUEUED \o <<CR, LF>>
ReplyError == <<TypeError, 69, CR, LF>>
ReplyInt == <<TypeIntegers, 55, CR, LF>>
ReplyBulk == <<TypeBulkString, 49, CR, LF, 118, CR, LF>>
ReplyNullBulk == <<TypeBulkString, 45, 49, CR, LF>>
ReplyNullArray == <<TypeArrays, 45, 49, CR, LF>>
ReplyArray == <<TypeArrays, 50, CR, LF>> \o ReplyInt \o ReplyOK
\* the result of an EXEC whose first command failed
ReplyArrayErr == <<TypeArrays, 50, CR, LF>> \o ReplyError \o ReplyInt
\* nothing arrives before the deadline, or the peer closed
ReplyNone == <<>>
\* "$-2\r\n": a bulk-string header with a length below -1
ReplyBadLen == <<TypeBulkString, 45, 50, CR, LF>>
\* "$1\r\nv": a bulk string cut short, the peer having closed
ReplyShortBulk == <<TypeBulkString, 49, CR, LF, 118>>
\* "!x\r\n": a type byte that is none of the five
ReplyBadType == <<33, 120, CR, LF>>
\* ":x\r\n": an integer that does not parse
ReplyBadInt == <<TypeIntegers, 120, CR, LF>>
Replies == {ReplyOK, ReplyQueued, ReplyError, ReplyInt, ReplyBulk, ReplyNullBulk,
            ReplyNullArray, ReplyArray, ReplyArrayErr, ReplyNone,
            ReplyBadLen, ReplyShortBulk, ReplyBadType, ReplyBadInt}
\* the replies drawn for the commands of a pipeline batch, and for the
\* attempts of CallN
PipeReplies == {ReplyOK, ReplyError, ReplyInt, ReplyNullBulk, ReplyArrayErr, ReplyNone}
RetryReplies == {ReplyOK, ReplyError, ReplyInt, ReplyNullBulk, ReplyArrayErr, ReplyNone}
\* the server's answers to the n requests a flush of the connection cs would
\* deliver; nothing reaches the server from a closed or failed connection
Served(cs, n, from) == IF cs.closed \/ cs.werr THEN {<<>>} ELSE [1..n -> from]

VARIABLES conns, pool, callNum, writeTimeout, cn, tx, res, callMu, callers
vars == <<conns, pool, callNum, writeTimeout, cn, tx, res, callMu, callers>>

(***************************************************************************)
(* Connection primitives, on the record of one Conn                        *)
(***************************************************************************)
NewConn(hasPool) ==
    [closed |-> FALSE, wb |-> <<>>, wbReqs |-> 0, werr |-> FALSE, rb |-> <<>>,
     pipeCount |-> 0, batch |-> <<>>, pool |-> hasPool]

\* c.conn.Close()
Close(cs) == [cs EXCEPT !.closed = TRUE]

\* c.wb.Flush(): bufio.Writer keeps its first error; the server answers
\* every request that reaches it, its replies become readable
Flush(cs, replies) ==
    IF cs.werr THEN [cs |-> cs, e |-> ErrClosed, wire |-> <<>>, frames |-> <<>>]
    ELSE IF cs.wb = <<>> THEN [cs |-> cs, e |-> NoErr, wire |-> <<>>, frames |-> <<>>]
    ELSE IF cs.closed
         THEN [cs |-> [cs EXCEPT !.werr = TRUE], e |-> ErrClosed,
               wire |-> <<>>, frames |-> <<>>]
         ELSE [cs |-> [cs EXCEPT !.wb = <<>>, !.wbReqs = 0,
                                 !.rb = @ \o Flatten(replies)],
               e |-> NoErr, wire |-> cs.wb, frames |-> replies]

\* c.writeRequest into the bufio.Writer
BufferRequest(cs, command, args) ==
    IF cs.werr THEN [cs |-> cs, e |-> ErrClosed]
    ELSE [cs |-> [cs EXCEPT !.wb = @ \o writeRequest(command, args),
                            !.wbReqs = @ + 1],
          e |-> NoErr]

CallRet(cs, val, e, panic, wire, frames) ==
    [cs |-> cs, val |-> val, e |-> e, panic |-> panic, wire |-> wire, frames |-> frames]

\* Conn.Call handing on what readResponse returned, reply and error together
CallReadKeepsReply(f, r) ==
    CallRet([f.cs EXCEPT !.rb = r.rest], r.val, r.e, r.panic, f.wire, f.frames)

\* Conn.Call from the point where the reply r has been read
CallRead(f, r) ==
    IF r.panic
    THEN CallRet([f.cs EXCEPT !.rb = r.rest], NilV, NoErr, TRUE, f.wire, f.frames)
    ELSE IF r.e # NoErr
         THEN CallRet([f.cs EXCEPT !.rb = r.rest], NilV, r.e, FALSE, f.wire, f.frames)
         ELSE CallRet([f.cs EXCEPT !.rb = r.rest], r.val, NoErr, FALSE, f.wire, f.frames)

\* Conn.Call from the point where the flush has returned f
CallFlush(f) ==
    IF f.e # NoErr THEN CallRet(f.cs, NilV, f.e, FALSE, <<>>, <<>>)
    ELSE CallRead(f, readResponse(f.cs.rb))

\* Conn.Call from the point where writeRequest has returned w
CallWrite(w, replies) ==
    IF w.e # NoErr THEN CallRet(w.cs, NilV, w.e, FALSE, <<>>, <<>>)
    ELSE CallFlush(Flush(w.cs, replies))

\* Conn.Call, the pool counter apart (see CallCount)
Call(cs, command, args, replies) ==
    IF writeTimeout /\ cs.closed
    THEN CallRet(cs, NilV, ErrClosed, FALSE, <<>>, <<>>)
    ELSE CallWrite(BufferRequest(cs, command, args), replies)

\* c.pool.CallNum++ under callMu
CallCount(cs) == IF cs.pool THEN callNum + 1 ELSE callNum

\* the test of CallN: a failure that is not tagged with CommonErrPrefix
Retryable(e) == e # NoErr /\ ~Contains(e.msg, CommonErrPrefix)

\* the loop condition of CallN, off by one
LoopCondOffByOne(i, retry) == i <= retry

\* the loop condition of CallN
LoopCond(i, retry) == i < retry

\* the acknowledgement check shared by MULTI, Discard and Watch (text OK)
\* and TransSend (text QUEUED)
CheckAck(r, text) ==
    IF r.e # NoErr THEN r.e
    ELSE IF r.val.k # "bytes" THEN ErrBadType
    ELSE IF r.val.b = text THEN NoErr
    ELSE ErrInvalidReturn(r.val.b)

\* Watch builds its arguments by ranging over args, not over keys
WatchArgs(keys) == [i \in 1..Len(keys) |-> NilArg]

\* the decode loop of PipeExec: ret[i], e = c.readResponse()
RECURSIVE PipeLoop(_, _, _, _, _, _)
RECURSIVE PipeStep(_, _, _, _, _)

\* the body of the loop of PipeExec, r being what c.readResponse() returned
PipeStep(r, i, n, ret, errs) ==
    IF r.panic
    THEN [val |-> NilArrayV, e |-> NoErr, rest |-> r.rest, panic |-> TRUE, errs |-> errs]
    ELSE PipeLoop(r.rest, i + 1, n, Append(ret, r.val), r.e, Append(errs, r.e))

PipeLoop(buf, i, n, ret, e, errs) ==
    IF i >= n
    THEN [val |-> ArrayV(ret), e |-> e, rest |-> buf, panic |-> FALSE, errs |-> errs]
    ELSE PipeStep(readResponse(buf), i, n, ret, errs)

(***************************************************************************)
(* State                                                                   *)
(***************************************************************************)
Idle == [pc |-> "idle", retry |-> 0, i |-> 0, c |-> 0, ret |-> NilV, e |-> NoErr,
         cmd |-> <<>>, log |-> <<>>]

\* what the last operation returned and what it saw
Result(op, c, val, e, panic, wire, frames, pre, aux) ==
    [op |-> op, c |-> c, val |-> val, e |-> e, panic |-> panic, wire |-> wire,
     frames |-> frames, pre |-> pre, aux |-> aux]
NoAux == [retry |-> 0, log |-> <<>>, errs |-> <<>>, keys |-> <<>>, tx |-> -1,
          reason |-> "", calle |-> NoErr, cmd |-> <<>>, args |-> <<>>]
NoResult == Result("none", 0, NilV, NoErr, FALSE, <<>>, <<>>, NewConn(FALSE), NoAux)

\* a goroutine that owns one connection and runs Call on it: where it is in
\* Call, the CallNum it has loaded, the Calls it has entered
CallerIdle == [pc |-> "idle", tmp |-> 0, n |-> 0, e |-> NoErr]

Init ==
    /\ \E hasPool \in BOOLEAN :
          conns = [c \in Conns |-> IF c = Main THEN NewConn(hasPool) ELSE NewConn(TRUE)]
    /\ pool = Conns \ {Main}
    /\ callNum = 0
    /\ writeTimeout \in BOOLEAN
    /\ cn = Idle
    /\ tx = -1
    /\ res = NoResult
    /\ callMu = 0
    /\ callers = [c \in Conns |-> CallerIdle]

\* the single caller is between two operations, and the connection is
\* readable within the bound
CanStart == cn.pc = "idle" /\ res.op = "none" /\ Len(conns[Main].rb) <= MaxUnread
\* a request/response operation is not issued inside a pipeline batch
CanCall == CanStart /\ conns[Main].pipeCount = 0 /\ callNum < MaxCalls

SetMain(cs) == conns' = [conns EXCEPT ![Main] = cs]

(***************************************************************************)
(* Operations of the caller on its connection                              *)
(***************************************************************************)
\* c.Call(command, args...)
DoCall ==
    /\ CanCall
    /\ \E cmd \in Cmds, replies \in Served(conns[Main], conns[Main].wbReqs + 1, Replies) :
          \E r \in {Call(conns[Main], cmd.command, cmd.args, replies)} :
          /\ SetMain(r.cs)
          /\ res' = Result("Call", Main, r.val, r.e, r.panic, r.wire, r.frames,
                           conns[Main], NoAux)
    /\ callNum' = CallCount(conns[Main])
    /\ UNCHANGED <<pool, writeTimeout, cn, tx, callMu, callers>>

\* c.Close()
DoClose ==
    /\ CanStart
    /\ ~conns[Main].closed
    /\ SetMain(Close(conns[Main]))
    /\ res' = Result("Close", Main, NilV, NoErr, FALSE, <<>>, <<>>, conns[Main], NoAux)
    /\ UNCHANGED <<pool, callNum, writeTimeout, cn, tx, callMu, callers>>

\* c.MULTI()
DoMULTI ==
    /\ CanCall
    /\ \E replies \in Served(conns[Main], conns[Main].wbReqs + 1, Replies) :
          \E r \in {Call(conns[Main], MULTI, <<>>, replies)} :
          \E e \in {IF r.panic THEN NoErr ELSE CheckAck(r, OK)} :
              /\ SetMain(r.cs)
              /\ res' = Result("MULTI", Main, NilV, e, r.panic, r.wire, r.frames,
                               conns[Main], [NoAux EXCEPT !.tx = tx, !.calle = r.e])
              /\ tx' = IF ~r.panic /\ e = NoErr THEN 0 ELSE tx
    /\ callNum' = CallCount(conns[Main])
    /\ UNCHANGED <<pool, writeTimeout, cn, callMu, callers>>

\* c.TransSend(command, args...)
DoTransSend ==
    /\ CanCall
    /\ tx < MaxQueued
    /\ \E cmd \in Cmds, replies \in Served(conns[Main], conns[Main].wbReqs + 1, Replies) :
          \E r \in {Call(conns[Main], cmd.command, cmd.args, replies)} :
          \E e \in {IF r.panic THEN NoErr ELSE CheckAck(r, QUEUED)} :
              /\ SetMain(r.cs)
              /\ res' = Result("TransSend", Main, NilV, e, r.panic, r.wire, r.frames,
                               conns[Main], [NoAux EXCEPT !.tx = tx, !.calle = r.e])
              /\ tx' = IF ~r.panic /\ e = NoErr /\ tx >= 0 THEN tx + 1 ELSE tx
    /\ callNum' = CallCount(conns[Main])
    /\ UNCHANGED <<pool, writeTimeout, cn, callMu, callers>>

\* what TransExec returns from the outcome r of its Call and f of its Flush
TransExecRet(r, f) ==
    IF r.panic THEN [val |-> NilArrayV, e |-> NoErr, panic |-> TRUE]
    ELSE IF f.e # NoErr THEN [val |-> NilArrayV, e |-> f.e, panic |-> FALSE]
    ELSE IF r.val.k = "nil" THEN [val |-> NilArrayV, e |-> ErrNil, panic |-> FALSE]
    ELSE IF r.val.k # "array" THEN [val |-> NilArrayV, e |-> NoErr, panic |-> TRUE]
    ELSE [val |-> r.val, e |-> f.e, panic |-> FALSE]

\* c.TransExec()
DoTransExec ==
    /\ CanCall
    /\ \E replies \in Served(conns[Main], conns[Main].wbReqs + 1, Replies) :
          \E r \in {Call(conns[Main], EXEC, <<>>, replies)} :
          \E f \in {Flush(r.cs, <<>>)} :
          \E t \in {TransExecRet(r, f)} :
              /\ SetMain(IF r.panic THEN r.cs ELSE f.cs)
              /\ res' = Result("TransExec", Main, t.val, t.e, t.panic, r.wire, r.frames,
                               conns[Main], [NoAux EXCEPT !.tx = tx, !.calle = r.e])
    /\ tx' = -1
    /\ callNum' = CallCount(conns[Main])
    /\ UNCHANGED <<pool, writeTimeout, cn, callMu, callers>>

\* c.Discard()
DoDiscard ==
    /\ CanCall
    /\ \E replies \in Served(conns[Main], conns[Main].wbReqs + 1, Replies) :
          \E r \in {Call(conns[Main], DISCARD, <<>>, replies)} :
          \E e \in {IF r.panic THEN NoErr ELSE CheckAck(r, OK)} :
              /\ SetMain(r.cs)
              /\ res' = Result("Discard", Main, NilV, e, r.panic, r.wire, r.frames,
                               conns[Main], [NoAux EXCEPT !.tx = tx, !.calle = r.e])
              /\ tx' = IF ~r.panic /\ e = NoErr THEN -1 ELSE tx
    /\ callNum' = CallCount(conns[Main])
    /\ UNCHANGED <<pool, writeTimeout, cn, callMu, callers>>

\* c.Watch(keys)
DoWatch ==
    /\ CanCall
    /\ \E keys \in KeyLists, replies \in Served(conns[Main], conns[Main].wbReqs + 1, Replies) :
          \E r \in {Call(conns[Main], WATCH, WatchArgs(keys), replies)} :
          \E e \in {IF r.panic THEN NoErr ELSE CheckAck(r, OK)} :
              /\ SetMain(r.cs)
              /\ res' = Result("Watch", Main, NilV, e, r.panic, r.wire, r.frames,
                               conns[Main], [NoAux EXCEPT !.keys = keys, !.calle = r.e])
    /\ callNum' = CallCount(conns[Main])
    /\ UNCHANGED <<pool, writeTimeout, cn, tx, callMu, callers>>

\* c.PipeSend(command, args...)
DoPipeSend ==
    /\ CanStart
    /\ conns[Main].pipeCount < MaxPipe
    /\ \E cmd \in Cmds :
          \E w \in {BufferRequest([conns[Main] EXCEPT !.pipeCount = @ + 1,
                                                       !.batch = Append(@, cmd)],
                                    cmd.command, cmd.args)} :
              /\ SetMain(w.cs)
              /\ res' = Result("PipeSend", Main, NilV, w.e, FALSE, <<>>, <<>>,
                               conns[Main], NoAux)
    /\ UNCHANGED <<pool, callNum, writeTimeout, cn, tx, callMu, callers>>

\* c.PipeExec()
DoPipeExec ==
    /\ CanStart
    /\ \E replies \in Served(conns[Main], conns[Main].wbReqs, PipeReplies) :
          \E f \in {Flush(conns[Main], replies)} :
          IF f.e # NoErr
          THEN /\ SetMain(f.cs)
               /\ res' = Result("PipeExec", Main, NilArrayV, f.e, FALSE, f.wire,
                                f.frames, conns[Main], NoAux)
          ELSE \E l \in {PipeLoop(f.cs.rb, 0, f.cs.pipeCount, <<>>, f.e, <<>>)} :
                   /\ SetMain([f.cs EXCEPT !.pipeCount = 0, !.batch = <<>>,
                                           !.rb = l.rest])
                   /\ res' = Result("PipeExec", Main, l.val, l.e, l.panic, f.wire,
                                    f.frames, conns[Main],
                                    [NoAux EXCEPT !.errs = l.errs])
    /\ UNCHANGED <<pool, callNum, writeTimeout, cn, tx, callMu, callers>>

(***************************************************************************)
(* CallN: the retry loop, one action per iteration                         *)
(***************************************************************************)
\* c.pool.Pop(): an idle connection of the pool, or nil (0)
PopChoices ==
    IF pool = {} THEN {0}
    ELSE {0, CHOOSE p \in pool : \A q \in pool : p <= q}

\* CallN is entered: var ret, e; i := 0
CallNStart ==
    /\ CanCall
    /\ \E retry \in 0..MaxRetry, cmd \in Cmds :
          cn' = [pc |-> "loop", retry |-> retry, i |-> 0, c |-> Main, ret |-> NilV,
                 e |-> NoErr, cmd |-> cmd, log |-> <<>>]
    /\ res' = NoResult
    /\ UNCHANGED <<conns, pool, callNum, writeTimeout, tx, callMu, callers>>

CallNResult(val, e, panic, log, reason) ==
    Result("CallN", cn.c, val, e, panic, <<>>, <<>>, conns[Main],
           [NoAux EXCEPT !.retry = cn.retry, !.log = log, !.reason = reason])

\* one iteration of the loop of CallN
CallNIter ==
    /\ cn.pc = "loop"
    /\ LoopCond(cn.i, cn.retry)
    /\ callNum' = CallCount(conns[cn.c])
    /\ \E replies \in Served(conns[cn.c], conns[cn.c].wbReqs + 1, RetryReplies) :
          \E r \in {Call(conns[cn.c], cn.cmd.command, cn.cmd.args, replies)} :
          \E entry \in {[c |-> cn.c, val |-> r.val, e |-> r.e, pop |-> -1]} :
              IF r.panic
              THEN /\ conns' = [conns EXCEPT ![cn.c] = r.cs]
                   /\ res' = CallNResult(NilV, NoErr, TRUE, Append(cn.log, entry),
                                         "panic")
                   /\ cn' = Idle
                   /\ pool' = pool
              ELSE IF Retryable(r.e)
              THEN /\ conns' = [conns EXCEPT ![cn.c] = Close(r.cs)]
                   /\ IF ~r.cs.pool
                      THEN /\ res' = CallNResult(NilV, r.e, FALSE,
                                                 Append(cn.log, entry), "nopool")
                           /\ cn' = Idle
                           /\ pool' = pool
                      ELSE \E p \in PopChoices :
                              \E logged \in {Append(cn.log, [entry EXCEPT !.pop = p])} :
                              IF p = 0
                              THEN /\ res' = CallNResult(NilV, r.e, FALSE, logged,
                                                         "popnil")
                                   /\ cn' = Idle
                                   /\ pool' = pool
                              ELSE /\ cn' = [cn EXCEPT !.c = p, !.i = @ + 1,
                                                       !.ret = r.val, !.e = r.e,
                                                       !.log = logged]
                                   /\ pool' = pool \ {p}
                                   /\ res' = res
              ELSE /\ conns' = [conns EXCEPT ![cn.c] = r.cs]
                   /\ cn' = [cn EXCEPT !.i = @ + 1, !.ret = r.val, !.e = r.e,
                                       !.log = Append(@, entry)]
                   /\ UNCHANGED <<pool, res>>
    /\ UNCHANGED <<writeTimeout, tx, callMu, callers>>

\* the loop is left: return ret, e
CallNReturn ==
    /\ cn.pc = "loop"
    /\ ~LoopCond(cn.i, cn.retry)
    /\ res' = CallNResult(cn.ret, cn.e, FALSE, cn.log, "exit")
    /\ cn' = Idle
    /\ UNCHANGED <<conns, pool, callNum, writeTimeout, tx, callMu, callers>>

\* the operation has returned: the caller has its result and goes on
Return ==
    /\ res.op # "none"
    /\ res' = NoResult
    /\ UNCHANGED <<conns, pool, callNum, writeTimeout, cn, tx, callMu, callers>>

(***************************************************************************)
(* The codec on its own, applied to inputs drawn from bounded sets         *)
(***************************************************************************)
\* the bytes strings are made of: NUL, CR, LF, '+', 'O', 'K'
Bytes == {0, CR, LF, TypeSimpleString, 79, 75}
ByteStrings == UNION {[1..n -> Bytes] : n \in 0..MaxLen}

\* the arguments a request is made of: empty and non-empty strings and byte
\* slices, nil, integers, booleans
ArgChoices == {StrArg(<<>>), StrArg(KeyA), BytesArg(<<>>), BytesArg(<<CR, LF>>),
               NilArg, IntArg(0), IntArg(-12), BoolArg(TRUE)}
ArgLists == UNION {[1..n -> ArgChoices] : n \in 0..MaxArgs}

\* c.writeRequest(command, args): the bytes it hands to the bufio.Writer
DoWriteRequest ==
    /\ CanStart
    /\ \E command \in {GET, INCR}, args \in ArgLists :
          res' = Result("writeRequest", Main, NilV, NoErr, FALSE,
                        writeRequest(command, args), <<>>, conns[Main],
                        [NoAux EXCEPT !.cmd = command, !.args = args])
    /\ UNCHANGED <<conns, pool, callNum, writeTimeout, cn, tx, callMu, callers>>

\* c.writeBytes(s), and c.readResponse() on the bytes it has written
DoRoundTrip ==
    /\ CanStart
    /\ \E s \in ByteStrings :
          \E frame \in {writeBytes(s)} :
          \E r \in {readResponse(frame)} :
              res' = Result("roundTrip", Main, r.val, r.e, r.panic, frame, <<frame>>,
                            conns[Main], [NoAux EXCEPT !.args = <<BytesArg(s)>>])
    /\ UNCHANGED <<conns, pool, callNum, writeTimeout, cn, tx, callMu, callers>>

\* c.readLine() on the bytes received
DoReadLine ==
    /\ CanStart
    /\ \E stream \in ByteStrings :
          \E l \in {readLine(stream)} :
              res' = Result("readLine", Main, BytesV(l.b), l.e, FALSE, <<>>, <<stream>>,
                            conns[Main], NoAux)
    /\ UNCHANGED <<conns, pool, callNum, writeTimeout, cn, tx, callMu, callers>>

CodecNext ==
    \/ DoWriteRequest
    \/ DoRoundTrip
    \/ DoReadLine
    \/ Return

CodecSpec == Init /\ [][CodecNext]_vars

(***************************************************************************)
(* Call on several connections of one pool at once, one goroutine per      *)
(* connection: the steps of Call on the shared counter, then the rest      *)
(***************************************************************************)
\* the replies drawn for these Calls: one that succeeds, one that fails
ConcReplies == {ReplyOK, ReplyNone}

RECURSIVE Entered(_)
\* the Calls entered so far on the connections of S
Entered(S) ==
    IF S = {} THEN 0
    ELSE LET c == CHOOSE x \in S : TRUE IN callers[c].n + Entered(S \ {c})

SetCaller(c, v) == callers' = [callers EXCEPT ![c] = v]

\* Call is entered on connection c; without a pool the counter is skipped
CallEnter(c) ==
    /\ cn.pc = "idle" /\ res.op = "none"
    /\ callers[c].pc = "idle"
    /\ Entered(Conns) < MaxCalls
    /\ SetCaller(c, [callers[c] EXCEPT !.pc = IF conns[c].pool THEN "lock" ELSE "send",
                                        !.n = @ + 1, !.e = NoErr])
    /\ UNCHANGED <<conns, pool, callNum, writeTimeout, cn, tx, res, callMu>>

\* sync.Mutex.Lock returns to any goroutine at any time
MuFreeNoMutex == TRUE

\* sync.Mutex.Lock returns when no goroutine holds the mutex
MuFree == callMu = 0

\* c.pool.callMu.Lock()
CallLock(c) ==
    /\ callers[c].pc = "lock"
    /\ MuFree
    /\ callMu' = c
    /\ SetCaller(c, [callers[c] EXCEPT !.pc = "load"])
    /\ UNCHANGED <<conns, pool, callNum, writeTimeout, cn, tx, res>>

\* c.pool.CallNum++, the read
CallLoad(c) ==
    /\ callers[c].pc = "load"
    /\ SetCaller(c, [callers[c] EXCEPT !.pc = "store", !.tmp = callNum])
    /\ UNCHANGED <<conns, pool, callNum, writeTimeout, cn, tx, res, callMu>>

\* c.pool.CallNum++, the write
CallStore(c) ==
    /\ callers[c].pc = "store"
    /\ callNum' = callers[c].tmp + 1
    /\ SetCaller(c, [callers[c] EXCEPT !.pc = "unlock", !.tmp = 0])
    /\ UNCHANGED <<conns, pool, writeTimeout, cn, tx, res, callMu>>

\* c.pool.callMu.Unlock()
CallUnlock(c) ==
    /\ callers[c].pc = "unlock"
    /\ callMu' = 0
    /\ SetCaller(c, [callers[c] EXCEPT !.pc = "send"])
    /\ UNCHANGED <<conns, pool, callNum, writeTimeout, cn, tx, res>>

\* the rest of Call: deadline, request, flush, reply; Call returns
CallFinish(c) ==
    /\ callers[c].pc = "send"
    /\ \E replies \in Served(conns[c], conns[c].wbReqs + 1, ConcReplies) :
          \E r \in {Call(conns[c], GET, <<StrArg(KeyA)>>, replies)} :
              /\ conns' = [conns EXCEPT ![c] = r.cs]
              /\ SetCaller(c, [callers[c] EXCEPT !.pc = "idle", !.e = r.e])
    /\ UNCHANGED <<pool, callNum, writeTimeout, cn, tx, res, callMu>>

CounterNext ==
    \/ \E c \in Conns : CallEnter(c)
    \/ \E c \in Conns : CallLock(c)
    \/ \E c \in Conns : CallLoad(c)
    \/ \E c \in Conns : CallStore(c)
    \/ \E c \in Conns : CallUnlock(c)
    \/ \E c \in Conns : CallFinish(c)

CounterSpec == Init /\ [][CounterNext]_vars

\* the caller uses Call, Close and the transaction operations
Next ==
    \/ DoCall
    \/ DoClose
    \/ DoMULTI
    \/ DoTransSend
    \/ DoTransExec
    \/ DoDiscard
    \/ DoWatch
    \/ Return

Spec == Init /\ [][Next]_vars

\* the caller uses the pipeline
PipeNext ==
    \/ DoClose
    \/ DoPipeSend
    \/ DoPipeExec
    \/ Return

PipeSpec == Init /\ [][PipeNext]_vars

\* the caller uses the retry wrapper CallN
RetryNext ==
    \/ DoClose
    \/ CallNStart
    \/ CallNIter
    \/ CallNReturn
    \/ Return

RetrySpec == Init /\ [][RetryNext]_vars

(***************************************************************************)
(* Properties                                                              *)
(***************************************************************************)
\* a failure that carries the CommonErrPrefix tag
Tagged(e) == e # NoErr /\ Contains(e.msg, CommonErrPrefix)

\* C1: once an attempt of CallN has succeeded no further Call is issued, and
\* CallN returns the reply of that attempt with a nil error
C1_SuccessReturnsAtOnce ==
    /\ \A j \in 1..Len(cn.log) : cn.log[j].e = NoErr => j = Len(cn.log)
    /\ (res.op = "CallN" /\ ~res.panic) =>
          \A j \in 1..Len(res.aux.log) :
              res.aux.log[j].e = NoErr =>
                  /\ j = Len(res.aux.log)
                  /\ res.e = NoErr
                  /\ res.val = res.aux.log[j].val

\* C2: once an attempt of CallN has failed with an Error reply of the server
\* no further Call is issued, and CallN returns that error
C2_NoRetryAfterErrorReply ==
    /\ \A j \in 1..Len(cn.log) : cn.log[j].e.name = "reply" => j = Len(cn.log)
    /\ (res.op = "CallN" /\ ~res.panic) =>
          \A j \in 1..Len(res.aux.log) :
              res.aux.log[j].e.name = "reply" =>
                  /\ j = Len(res.aux.log)
                  /\ res.e = res.aux.log[j].e

\* C3: TransExec, after a MULTI and the queued commands, on a connection in
\* step with the server that answers EXEC with a null array, returns ErrNil
\* and no results array
C3_AbortedExecIsErrNil ==
    (/\ res.op = "TransExec"
     /\ res.aux.tx >= 0
     /\ res.pre.rb = <<>>
     /\ res.frames = <<ReplyNullArray>>)
    => (~res.panic /\ res.e = ErrNil /\ res.val.null)

\* C4: when the Call of EXEC fails, TransExec returns the error of that Call
\* (and so not ErrNil)
C4_ExecFailureIsReturned ==
    (res.op = "TransExec" /\ ~res.panic /\ res.aux.calle # NoErr)
    => (res.e = res.aux.calle /\ res.e # ErrNil)

\* the index of the first failed decode of a pipeline batch, 0 when none failed
FirstFailure(errs) ==
    IF \E i \in 1..Len(errs) : errs[i] # NoErr
    THEN CHOOSE i \in 1..Len(errs) :
            errs[i] # NoErr /\ \A j \in 1..(i - 1) : errs[j] = NoErr
    ELSE 0

\* C5: when the decoding of a reply of the batch fails, PipeExec returns the
\* first such error and decodes no later reply
C5_PipeExecStopsAtFirstFailure ==
    (res.op = "PipeExec" /\ ~res.panic /\ FirstFailure(res.aux.errs) # 0)
    => /\ res.e = res.aux.errs[FirstFailure(res.aux.errs)]
       /\ Len(res.aux.errs) = FirstFailure(res.aux.errs)

\* the requests of a batch of commands, as PipeSend encodes them
RECURSIVE BatchBytes(_)
BatchBytes(batch) ==
    IF batch = <<>> THEN <<>>
    ELSE writeRequest(Head(batch).command, Head(batch).args) \o BatchBytes(Tail(batch))

\* the pipeline ran on an open connection in step with the server, and the
\* server answered every command of the batch
CleanBatch ==
    /\ res.op = "PipeExec"
    /\ ~res.pre.closed /\ ~res.pre.werr /\ res.pre.rb = <<>>
    /\ Len(res.frames) = Len(res.pre.batch)
    /\ \A i \in 1..Len(res.frames) : res.frames[i] # ReplyNone

\* C6: PipeExec sends the N commands of the batch in order in one flush and
\* returns N slots, slot i holding the reply to the i-th command whenever the
\* server answered that command with a reply (a Call would have returned it)
C6_PipelineOrder ==
    CleanBatch =>
        /\ ~res.panic
        /\ res.wire = BatchBytes(res.pre.batch)
        /\ Len(res.val.a) = Len(res.pre.batch)
        /\ \A i \in 1..Len(res.frames) :
              readResponse(res.frames[i]).e = NoErr =>
                  res.val.a[i] = readResponse(res.frames[i]).val

\* C7: a Call on a connection in step with the server that returns a reply
\* or a protocol error has consumed the whole reply frame, and the reply it
\* returns is the reply to its own request
C7_CallEndsAtFrameBoundary ==
    (/\ res.op = "Call"
     /\ ~res.panic
     /\ Len(res.frames) = 1
     /\ res.frames[1] # ReplyNone
     /\ (res.e = NoErr \/ Tagged(res.e)))
    => /\ res.pre.rb = <<>> => conns[Main].rb = <<>>
       /\ res.e = NoErr => res.val = readResponse(res.frames[1]).val

\* C8: the first attempt failed with a transport error, the pool supplied a
\* replacement and the Call on it succeeded: the failed connection is closed,
\* the retry ran on the replacement, and CallN returns that reply, nil error
C8_RetrySucceedsOnReplacement ==
    (/\ res.op = "CallN"
     /\ ~res.panic
     /\ res.aux.retry >= 2
     /\ Len(res.aux.log) >= 2
     /\ ~(res.aux.log[1].e = NoErr \/ Tagged(res.aux.log[1].e))
     /\ res.aux.log[1].pop > 0
     /\ res.aux.log[2].e = NoErr)
    => /\ conns[res.aux.log[1].c].closed
       /\ res.aux.log[2].c = res.aux.log[1].pop
       /\ res.e = NoErr
       /\ res.val = res.aux.log[2].val

\* the attempts of a run of CallN: at most retry of them; an attempt follows
\* a transport failure only on a connection the pool has just supplied
BoundedAttempts(log, retry) ==
    /\ Len(log) <= retry
    /\ \A j \in 1..(Len(log) - 1) :
          ~(log[j].e = NoErr \/ Tagged(log[j].e)) =>
              (log[j].pop > 0 /\ log[j + 1].c = log[j].pop /\ conns[log[j].c].pool)

C9_Safe ==
    /\ BoundedAttempts(cn.log, cn.retry)
    /\ cn.pc = "loop" => (cn.i = Len(cn.log) /\ cn.i <= cn.retry)
    /\ (res.op = "CallN" /\ ~res.panic) =>
          /\ BoundedAttempts(res.aux.log, res.aux.retry)
          /\ (/\ Len(res.aux.log) >= 1
              /\ \A j \in 1..Len(res.aux.log) :
                    ~(res.aux.log[j].e = NoErr \/ Tagged(res.aux.log[j].e)))
             => res.e = res.aux.log[Len(res.aux.log)].e
          /\ res.aux.reason \in {"nopool", "popnil"} =>
                /\ Len(res.aux.log) >= 1
                /\ res.e = res.aux.log[Len(res.aux.log)].e
                /\ ~Tagged(res.e) /\ res.e # NoErr
                /\ res.val = NilV

\* every step taken inside CallN issues one more Call or returns
C9_Step == cn.pc = "loop" => (cn'.pc = "idle" \/ cn'.i = cn.i + 1)

\* C9: CallN issues at most maxAttempts Calls and returns (every step of its
\* loop counts one more attempt, up to maxAttempts, or leaves it); when every
\* attempt failed with a transport error it returns the error of the last
\* attempt; without a pool, or when Pop returns nil, it issues no further
\* Call and returns the error of the attempt that just failed
C9_BoundedAndLastError == []C9_Safe /\ [][C9_Step]_vars

\* both attempts of a CallN with maxAttempts 2 failed with a transport error,
\* the pool having supplied a replacement each time, and CallN returned the
\* error of the second
C9_Witness ==
    /\ res.op = "CallN"
    /\ res.aux.reason = "exit"
    /\ res.aux.retry = 2
    /\ Len(res.aux.log) = 2
    /\ \A j \in 1..2 : ~(res.aux.log[j].e = NoErr \/ Tagged(res.aux.log[j].e))
    /\ res.e = res.aux.log[2].e

\* the arguments Watch is given, as command arguments
KeyArgs(keys) == [i \in 1..Len(keys) |-> StrArg(keys[i])]

\* C10: the request Watch(keys) puts on the wire is the command WATCH with
\* the keys as its arguments, in order
C10_WatchSendsKeys ==
    (res.op = "Watch" /\ res.wire # <<>>)
    => res.wire = writeRequest(WATCH, KeyArgs(res.aux.keys))

\* the bytes an argument of a request stands for
ArgBytes(arg) ==
    CASE arg.t = "int" -> AppendInt(arg.n)
      [] arg.t = "bool" -> IF arg.n = 1 THEN <<49>> ELSE <<48>>
      [] arg.t = "nil" -> <<>>
      [] OTHER -> arg.s

\* the frame "$<len>\r\n<bytes>\r\n", <len> in decimal with at least one digit
BulkFrame(b) == <<TypeBulkString>> \o NatDigits(Len(b)) \o <<CR, LF>> \o b \o <<CR, LF>>

RECURSIVE ArgFrames(_)
ArgFrames(args) ==
    IF args = <<>> THEN <<>> ELSE BulkFrame(ArgBytes(Head(args))) \o ArgFrames(Tail(args))

\* C11: writeRequest emits "*<1+len(args)>\r\n", then one frame
\* "$<len>\r\n<bytes>\r\n" for the verb and for each argument in order, <len>
\* being the decimal length of <bytes> with at least one digit, also for the
\* arguments that encode to the empty byte string
C11_RequestEncoding ==
    res.op = "writeRequest" =>
        res.wire = <<TypeArrays>> \o NatDigits(1 + Len(res.aux.args)) \o <<CR, LF>>
                   \o BulkFrame(res.aux.cmd) \o ArgFrames(res.aux.args)

\* C12: the frame writeBytes(s) produces decodes, by readResponse, to the
\* bulk string s with no error, for every byte string s (of any length,
\* with CR, LF or any other byte inside)
C12_BulkRoundTrip ==
    res.op = "roundTrip" =>
        /\ ~res.panic
        /\ res.e = NoErr
        /\ res.val = BytesV(res.aux.args[1].s)

\* C13: whatever the server sends, a bulk-string or array header with a
\* length below -1 included, decoding returns a reply or an error: no panic
\* leaves Call or the transaction operations
C13_DecodingNeverFaults ==
    res.op \in {"Call", "MULTI", "TransSend", "TransExec", "Discard", "Watch"}
    => ~res.panic

\* what the server may send that is no reply: an Error reply, nothing at all,
\* a bulk string cut short, an unknown type byte, an integer that does not
\* parse, an array with an element that fails
FailureReplies == {ReplyError, ReplyNone, ReplyShortBulk, ReplyBadType, ReplyBadInt,
                   ReplyArrayErr}

\* C15: a Call that returns an error returns a nil reply with it, never a
\* reply and an error together; and a Call fails, with such an error, on a
\* closed socket and whenever what it reads is no reply
C15_FailedCallReturnsNil ==
    (res.op = "Call" /\ ~res.panic) =>
        /\ res.e # NoErr => res.val = NilV
        /\ res.pre.closed => res.e # NoErr
        /\ (res.pre.rb = <<>> /\ Len(res.frames) = 1 /\ res.frames[1] \in FailureReplies)
           => res.e # NoErr

\* a Call read a bulk string cut short: it returned the error of the read and
\* a nil reply, not the bytes parseBulkString had read so far
C15_Witness ==
    /\ res.op = "Call"
    /\ res.pre.rb = <<>>
    /\ res.frames = <<ReplyShortBulk>>
    /\ res.e = ErrIO
    /\ res.val = NilV

RECURSIVE Counted(_)
\* the Calls, on the connections of S that have the pool, that are past
\* their increment of CallNum
Counted(S) ==
    IF S = {} THEN 0
    ELSE LET c == CHOOSE x \in S : TRUE
         IN  (IF ~conns[c].pool THEN 0
              ELSE IF callers[c].pc \in {"lock", "load", "store"}
                   THEN callers[c].n - 1
                   ELSE callers[c].n)
             + Counted(S \ {c})

\* C16: with Calls running at once on connections that share the pool, no
\* increment of CallNum is lost: CallNum is its initial value (0) plus the
\* number of Calls that have made their increment, so that once all have
\* returned it is the number of Calls invoked, failed ones included
C16_NoLostUpdates ==
    /\ callNum = Counted(Conns)
    /\ (\A c \in Conns : callers[c].pc = "idle" /\ conns[c].pool)
       => callNum = Entered(Conns)

\* a Call has been counted and has returned with an error, while a second
\* Call holds the mutex between its read and its write of CallNum and a third
\* waits for the mutex
C16_Witness ==
    /\ callNum >= 1
    /\ \E a, b \in Conns :
          /\ a # b
          /\ callers[a].pc = "store" /\ callers[b].pc = "lock"
          /\ callMu = a
    /\ \E c \in Conns :
          callers[c].pc = "idle" /\ callers[c].n >= 1 /\ callers[c].e # NoErr

\* C17: whenever PipeExec returns, with a result or with an error, a failed
\* flush included, the pending count of the connection is zero
C17_PipeExecResetsCount ==
    res.op = "PipeExec" => conns[Main].pipeCount = 0

\* the connection CallN was invoked on was open then: its first Call did not
\* fail on a closed socket
OpenAtEntry(log) == Len(log) >= 1 /\ log[1].e # ErrClosed

\* C18: after CallN has returned a reply with a nil error, the connection
\* the caller invoked it on is not closed, also when the reply came from a
\* replacement connection
C18_CallerConnStaysOpen ==
    (/\ res.op = "CallN"
     /\ ~res.panic
     /\ res.e = NoErr
     /\ OpenAtEntry(res.aux.log))
    => ~conns[Main].closed

\* the number of connections a run of CallN has taken from the pool
RECURSIVE Pops(_)
Pops(log) ==
    IF log = <<>> THEN 0
    ELSE (IF log[Len(log)].pop > 0 THEN 1 ELSE 0) + Pops(Take(log, Len(log) - 1))

\* C19: every connection CallN takes from the pool gets a Call: CallN pops
\* at most maxAttempts - 1 times and does not return with a popped
\* connection it made no attempt on
C19_PoppedConnIsUsed ==
    res.op = "CallN" =>
        /\ \A j \in 1..Len(res.aux.log) :
              res.aux.log[j].pop > 0 => j < Len(res.aux.log)
        /\ (Len(res.aux.log) >= 1 => Pops(res.aux.log) <= res.aux.retry - 1)

\* C20: when CallN returns a nil error it has issued at least one Call and
\* returns the reply of the last one, for maxAttempts <= 0 too
C20_SuccessHasACall ==
    (res.op = "CallN" /\ ~res.panic /\ res.e = NoErr)
    => /\ Len(res.aux.log) >= 1
       /\ res.val = res.aux.log[Len(res.aux.log)].val

\* the bytes received hold a line (they reach a LF) that does not end in CR LF
BadlyEndedLine(stream) ==
    /\ IndexLF(stream) > 0
    /\ ~(IndexLF(stream) >= 2 /\ stream[IndexLF(stream) - 1] = CR)

\* C14: readLine fails with ErrBadTerminator on every received line that
\* does not end in CR LF, and returns no payload for it
C14_TerminatorCheck ==
    (res.op = "readLine" /\ BadlyEndedLine(res.frames[1]))
    => (res.e = ErrBadTerminator /\ res.val.b = <<>>)
====
